---------------------------- MODULE Spec2Model ----------------------------
(***************************************************************************)
(* Model of the Tebi.io S3 compatibility examples:                         *)
(*   cmd/sdk-v1/main.go  (AWS SDK v1 program)                              *)
(*   cmd/sdk-v2/main.go  (AWS SDK v2 program)                              *)
(* Strings are sequences of one-character strings, so that strings.Split,  *)
(* fmt.Sprintf and string concatenation are computed character by          *)
(* character.                                                              *)
(***************************************************************************)
EXTENDS Integers, Sequences, FiniteSets, TLC

(***************************************************************************)
(* Bounds of the model.                                                    *)
(***************************************************************************)
\* longest filename handed to the key generator by the harness
MaxLen == 3
\* most injected failures of the backend / of the random source in one run
MaxFaults == 2

(***************************************************************************)
(* Characters and string helpers.                                          *)
(***************************************************************************)
UpperChars ==
    {"A", "B", "C", "D", "E", "F", "G", "H", "I", "J", "K", "L", "M",
     "N", "O", "P", "Q", "R", "S", "T", "U", "V", "W", "X", "Y", "Z"}

\* the characters filenames of the harness are drawn from
FileChars == {"a", "B", ".", "/"}

\* strings.Split(s, sep) for a one-character separator: the pieces between
\* the separators, one piece more than there are separators ([""] for "").
RECURSIVE Split(_, _)
Split(s, sep) ==
    IF Len(s) = 0
    THEN << <<>> >>
    ELSE LET init == Split(SubSeq(s, 1, Len(s) - 1), sep)
             last == s[Len(s)]
         IN  IF last = sep
             THEN Append(init, <<>>)
             ELSE [init EXCEPT ![Len(init)] = Append(@, last)]

\* one decimal digit as a character
DigitChar(d) ==
    CASE d = 0 -> "0" [] d = 1 -> "1" [] d = 2 -> "2" [] d = 3 -> "3"
      [] d = 4 -> "4" [] d = 5 -> "5" [] d = 6 -> "6" [] d = 7 -> "7"
      [] d = 8 -> "8" [] d = 9 -> "9"

\* time.Time.Format("200601"): four-digit year, two-digit month
FormatYearMonth(t) ==
    << DigitChar((t.year \div 1000) % 10), DigitChar((t.year \div 100) % 10),
       DigitChar((t.year \div 10) % 10),   DigitChar(t.year % 10),
       DigitChar((t.month \div 10) % 10),  DigitChar(t.month % 10) >>

(***************************************************************************)
(* Ambient inputs of key generation: the wall clock and the random source. *)
(***************************************************************************)
\* values time.Now() may return
Times == { [year |-> 2026, month |-> 11], [year |-> 2027, month |-> 1] }

\* size argument of gonanoid.New
NanoIDSize == 15

\* identifiers gonanoid.New(15) may return (alphabet _-0-9a-zA-Z)
NanoIDs == { [i \in 1..NanoIDSize |-> c] : c \in {"x", "_"} }

\* the random source failed: gonanoid.New returns ("", err)
RandFail == [id |-> <<>>, err |-> TRUE]

\* outcomes (id, err) of one gonanoid.New(15) call
RandOutcomes == { [id |-> n, err |-> FALSE] : n \in NanoIDs } \cup {RandFail}

(***************************************************************************)
(* Key generation.                                                         *)
(***************************************************************************)
\* ext of GenerateImageKey: last piece of the filename split on ".",
\* "jpg" when there is no "."
ExtWrongPiece(filename) ==
    LET parts == Split(filename, ".")
    IN  IF Len(parts) > 1 THEN parts[1] ELSE <<"j", "p", "g">>

ExtNoDefault(filename) ==
    LET parts == Split(filename, ".")
    IN  IF Len(parts) > 0 THEN parts[Len(parts)] ELSE <<"j", "p", "g">>

ToLowerChar(c) == IF c = "B" THEN "b" ELSE c

ExtLowered(filename) ==
    LET parts == Split(filename, ".")
        ext   == IF Len(parts) > 1 THEN parts[Len(parts)] ELSE <<"j", "p", "g">>
    IN  [i \in 1..Len(ext) |-> ToLowerChar(ext[i])]

Ext(filename) ==
    LET parts == Split(filename, ".")
    IN  IF Len(parts) > 1 THEN parts[Len(parts)] ELSE <<"j", "p", "g">>

\* GenerateImageKey(filename) with the clock value and the random outcome
\* it reads: the pair (key, err) it returns
GenerateImageKey(filename, now, rnd) ==
    LET ext       == Ext(filename)
        yearMonth == FormatYearMonth(now)
    IN  IF rnd.err
        THEN [key |-> <<>>, err |-> TRUE]
        ELSE [key |-> yearMonth \o <<"/">> \o rnd.id \o <<".">> \o ext,
              err |-> FALSE]

GenerateImageKeyWithEnvKeepsPrefixOnError(filename, environment, now, rnd) ==
    LET r == GenerateImageKey(filename, now, rnd)
    IN  IF environment = "dev" \/ environment = "development"
        THEN [key |-> <<"d", "e", "v", "/">> \o r.key, err |-> r.err]
        ELSE r

GenerateImageKeyWithEnvDevOnly(filename, environment, now, rnd) ==
    LET r == GenerateImageKey(filename, now, rnd)
    IN  IF r.err
        THEN [key |-> <<>>, err |-> TRUE]
        ELSE IF environment = "dev"
             THEN [key |-> <<"d", "e", "v", "/">> \o r.key, err |-> FALSE]
             ELSE r

\* GenerateImageKeyWithEnv(filename, environment)
GenerateImageKeyWithEnv(filename, environment, now, rnd) ==
    LET r == GenerateImageKey(filename, now, rnd)
    IN  IF r.err
        THEN [key |-> <<>>, err |-> TRUE]
        ELSE IF environment = "dev" \/ environment = "development"
             THEN [key |-> <<"d", "e", "v", "/">> \o r.key, err |-> FALSE]
             ELSE r

(***************************************************************************)
(* Harness of the key generator: one call of GenerateImageKey and of       *)
(* GenerateImageKeyWithEnv on arguments drawn from bounded sets.           *)
(***************************************************************************)
RECURSIVE StringsUpTo(_)
StringsUpTo(n) ==
    IF n = 0 THEN { <<>> }
    ELSE LET shorter == StringsUpTo(n - 1)
         IN  shorter \cup { Append(s, c) : s \in shorter, c \in FileChars }

Filenames == StringsUpTo(MaxLen)

Environments == {"", "dev", "development", "Dev", "production"}

NoResult == [key |-> <<>>, err |-> FALSE]

VARIABLES
    argFilename,     \* filename argument of the call
    argEnvironment,  \* environment argument of the call
    callNow,         \* the value time.Now() returned to the call
    callRnd,         \* the outcome of gonanoid.New(15) in the call
    callPc,          \* "ready", "returned"
    retKey,          \* what GenerateImageKey returned
    retKeyEnv,       \* what GenerateImageKeyWithEnv returned
    calls            \* calls[c]: the locals of the concurrent call c

keyVars == <<argFilename, argEnvironment, callNow, callRnd, callPc,
             retKey, retKeyEnv, calls>>

\* most calls of GenerateImageKeyWithEnv in flight at once
MaxCalls == 2

CallIds == 1..MaxCalls

\* arguments of the concurrent calls
ConcFilenames == { <<>>, <<"a", ".", "B">> }

ConcEnvironments == { "dev", "production" }

\* the locals of a call that has not started: its arguments are set, the
\* other locals hold their zero values
NewCall(filename, environment) ==
    [ pc |-> "split", filename |-> filename, environment |-> environment,
      ext |-> <<>>, now |-> [year |-> 0, month |-> 0], yearMonth |-> <<>>,
      rnd |-> RandFail, nanoID |-> <<>>, key |-> <<>>, err |-> FALSE ]

\* no concurrent call is made
NoCalls == [c \in CallIds |-> [NewCall(<<>>, "") EXCEPT !.pc = "unused"]]

(***************************************************************************)
(* The two programs: constants of main().                                  *)
(***************************************************************************)
Progs == {"v1", "v2"}

\* filename := "test-upload.txt"
TestUploadFilename == <<"t", "e", "s", "t", "-", "u", "p", "l", "o", "a", "d", ".", "t", "x", "t">>

\* SDK v1: key = "test-folder/test-file.txt"
TestKeyV1 == <<"t", "e", "s", "t", "-", "f", "o", "l", "d", "e", "r", "/", "t", "e", "s", "t", "-", "f", "i", "l", "e", ".", "t", "x", "t">>

\* SDK v1: bucket := "sharex"
HardcodedBucket == "sharex"

\* SDK v2: testKey := "test-folder/test-file-v2.txt"
TestKeyV2 == <<"t", "e", "s", "t", "-", "f", "o", "l", "d", "e", "r", "/", "t", "e", "s", "t", "-", "f", "i", "l", "e", "-", "v", "2", ".", "t", "x", "t">>

\* SDK v2: testKey + "-minimal"
MinimalSuffix == <<"-", "m", "i", "n", "i", "m", "a", "l">>

\* deletedKey := key + ".deleted"
DeletedSuffix == <<".", "d", "e", "l", "e", "t", "e", "d">>

\* fileContent of each program
FileContent(p) == IF p = "v1" THEN "Hello from AWS SDK v1!" ELSE "Hello from AWS SDK v2!"

(***************************************************************************)
(* The process environment after godotenv.Load, as os.Getenv reads it.     *)
(***************************************************************************)
AccessKeyIDs == { <<>>, <<"A", "K">> }

\* secrets shorter than, and as long as, the five characters main() prints
SecretAccessKeys == { <<>>, <<"s", "e", "c", "r">>, <<"s", "e", "c", "r", "t">> }

Regions == { "", "global" }

BucketNames == { "", "sharex", "test-bucket" }

EndpointURLs == { "", "https://s3.tebi.io" }

ProgramEnvironments == { "", "dev", "production" }

Environs ==
    [ AWS_ACCESS_KEY_ID     : AccessKeyIDs,
      AWS_SECRET_ACCESS_KEY : SecretAccessKeys,
      AWS_DEFAULT_REGION    : Regions,
      AWS_BUCKET_NAME       : BucketNames,
      AWS_ENDPOINT_URL      : EndpointURLs,
      ENV                   : ProgramEnvironments ]

\* objects an earlier run may have left in the backend
Leftovers ==
    { [bucket |-> "test-bucket", key |-> TestKeyV1, body |-> "old"] }

VARIABLES
    pc,         \* pc[p]: position of program p in main()
    environ,    \* the process environment
    dotenvErr,  \* dotenvErr[p]: godotenv.Load(".env") returned an error
    err,        \* err[p]: main's function-scope variable err is non-nil
    key,        \* key[p]: main's variable key
    testKey,    \* SDK v2 main's variable testKey
    genKey,     \* genKey[p]: what GenerateImageKeyWithEnv returned to main
    log,        \* log[p]: the storage operations p has issued, in order
    store,      \* the objects held by the backend
    faults,     \* failures injected so far
    summary     \* summary[p]: the closing line p printed

progVars == <<pc, environ, dotenvErr, err, key, testKey, genKey, log, store,
              faults, summary>>

vars == <<keyVars, progVars>>

\* the program variables while only the key generator is exercised
ProgsIdle ==
    /\ pc = [p \in Progs |-> "off"]
    /\ environ = [ AWS_ACCESS_KEY_ID |-> <<>>, AWS_SECRET_ACCESS_KEY |-> <<>>,
                   AWS_DEFAULT_REGION |-> "", AWS_BUCKET_NAME |-> "",
                   AWS_ENDPOINT_URL |-> "", ENV |-> "" ]
    /\ dotenvErr = [p \in Progs |-> FALSE]
    /\ err = [p \in Progs |-> FALSE]
    /\ key = [p \in Progs |-> <<>>]
    /\ testKey = <<>>
    /\ genKey = [p \in Progs |-> NoResult]
    /\ log = [p \in Progs |-> <<>>]
    /\ store = {}
    /\ faults = 0
    /\ summary = [p \in Progs |-> ""]

KeyInit ==
    /\ ProgsIdle
    /\ argFilename \in Filenames
    /\ argEnvironment \in Environments
    /\ callNow \in Times
    /\ callRnd = RandFail
    /\ callPc = "ready"
    /\ retKey = NoResult
    /\ retKeyEnv = NoResult
    /\ calls = NoCalls

\* the caller invokes GenerateImageKeyWithEnv, which invokes GenerateImageKey
CallGenerate ==
    /\ callPc = "ready"
    /\ \E rnd \in RandOutcomes :
          /\ callRnd' = rnd
          /\ retKey' = GenerateImageKey(argFilename, callNow, rnd)
          /\ retKeyEnv' = GenerateImageKeyWithEnv(argFilename, argEnvironment,
                                                  callNow, rnd)
    /\ callPc' = "returned"
    /\ UNCHANGED <<argFilename, argEnvironment, callNow, calls>>
    /\ UNCHANGED progVars

(***************************************************************************)
(* main(): locals read from the environment, the backend, the log.         *)
(***************************************************************************)
accessKeyID     == environ.AWS_ACCESS_KEY_ID
secretAccessKey == environ.AWS_SECRET_ACCESS_KEY
region          == environ.AWS_DEFAULT_REGION
bucketName      == environ.AWS_BUCKET_NAME
endpointURL     == environ.AWS_ENDPOINT_URL
environment     == environ.ENV

\* positions at which a program has stopped (or was never started)
Terminal == {"off", "done", "fatal", "panic"}

\* the programs are run one after the other: v2 starts once v1 has stopped
Turn(p) == p = "v2" => pc["v1"] \in Terminal

NoSource == [bucket |-> "", key |-> <<>>]

\* one storage operation as issued: its name, arguments and whether it
\* returned without error
Op(name, b, k, src, ok) ==
    [op |-> name, bucket |-> b, key |-> k, src |-> src, ok |-> ok]

Exists(b, k) == \E o \in store : o.bucket = b /\ o.key = k

BodyOf(b, k) == (CHOOSE o \in store : o.bucket = b /\ o.key = k).body

Without(b, k) == { o \in store : ~(o.bucket = b /\ o.key = k) }

\* results an operation may return: it fails when the backend cannot
\* serve it, and a failure may be injected while the budget lasts
Outcomes(possible) ==
    { ok \in BOOLEAN : /\ ok => possible
                       /\ (~ok /\ possible) => faults < MaxFaults }

Charge(possible, ok) == IF possible /\ ~ok THEN faults + 1 ELSE faults

\* the object key the upload and the later tests use: key in SDK v1,
\* testKey in SDK v2
ObjectKey(p) == IF p = "v1" THEN key[p] ELSE testKey

\* deletedKey := key + ".deleted"
DeletedKey(p) == ObjectKey(p) \o DeletedSuffix

\* prefix of Test 9: the first "/"-separated part of the key and "/"
ListPrefix(p) ==
    LET keyParts == Split(ObjectKey(p), "/")
    IN  IF Len(keyParts) > 1 THEN keyParts[1] \o <<"/">> ELSE <<>>

\* SDK v2: testKey = testKey + "-minimal" once the minimal PutObject has
\* succeeded ("use the successful key for remaining tests")
KeyAfterMinimalStale(ok, k) == testKey

KeyAfterMinimal(ok, k) == IF ok THEN k ELSE testKey

\* SDK v1, Test 4: log.Fatalf when PutObject returned an error
AfterUploadV1Continues(ok) == "t5"

AfterUploadV1(ok) == IF ok THEN "t5" ELSE "fatal"

\* Test 10: the original is deleted in the else-branch of the copy's error
\* check, Test 11 follows directly when the copy failed
AfterCopyAlwaysDeletes(ok) == "t10del"

AfterCopy(ok) == IF ok THEN "t10del" ELSE "t11"

\* assignment to main's function-scope err
SetErr(p, failed) == err' = [err EXCEPT ![p] = failed]

\* assignment to err after Test 5: in SDK v2 "headResult, err :=" inside
\* the if-block declares a new err, which every later test assigns, so
\* the function-scope err keeps the value Test 5 gave it
SetErrAfterVerify(p, failed) ==
    IF p = "v1" THEN err' = [err EXCEPT ![p] = failed] ELSE UNCHANGED err

Goto(p, label) == pc' = [pc EXCEPT ![p] = label]

Issue(p, rec) == log' = [log EXCEPT ![p] = Append(@, rec)]

(***************************************************************************)
(* main(): start-up.                                                       *)
(***************************************************************************)
\* godotenv.Load(".env") and the os.Getenv reads
LoadConfig(p) ==
    /\ pc[p] = "start" /\ Turn(p)
    /\ \E failed \in BOOLEAN :
          /\ dotenvErr' = [dotenvErr EXCEPT ![p] = failed]
          /\ SetErr(p, failed)
    /\ Goto(p, "validate")
    /\ UNCHANGED <<keyVars, environ, key, testKey, genKey, log, store, faults,
                   summary>>

RequiredMissingOrEndpoint ==
    \/ accessKeyID = <<>>
    \/ secretAccessKey = <<>>
    \/ region = ""
    \/ bucketName = ""
    \/ endpointURL = ""

\* the fatal exit taken when a required variable is empty
RequiredMissing ==
    \/ accessKeyID = <<>>
    \/ secretAccessKey = <<>>
    \/ region = ""
    \/ bucketName = ""

Validate(p) ==
    /\ pc[p] = "validate" /\ Turn(p)
    /\ Goto(p, IF RequiredMissing THEN "fatal" ELSE "print")
    /\ UNCHANGED <<keyVars, environ, dotenvErr, err, key, testKey, genKey, log,
                   store, faults, summary>>

\* length of the prefix of the secret that is printed: secretAccessKey[:5]
MaskLen == 5

\* printing the configuration: the slice secretAccessKey[:5] panics when
\* the secret is shorter
PrintConfig(p) ==
    /\ pc[p] = "print" /\ Turn(p)
    /\ Goto(p, IF Len(secretAccessKey) < MaskLen THEN "panic" ELSE "init")
    /\ UNCHANGED <<keyVars, environ, dotenvErr, err, key, testKey, genKey, log,
                   store, faults, summary>>

\* session.NewSession + s3.New (v1), config.LoadDefaultConfig +
\* s3.NewFromConfig (v2); a failure is fatal
InitClient(p) ==
    /\ pc[p] = "init" /\ Turn(p)
    /\ \E ok \in Outcomes(TRUE) :
          /\ SetErr(p, ~ok)
          /\ faults' = Charge(TRUE, ok)
          /\ Goto(p, IF ok THEN "t1" ELSE "fatal")
    /\ UNCHANGED <<keyVars, environ, dotenvErr, key, testKey, genKey, log,
                   store, summary>>

(***************************************************************************)
(* main(): Tests 1 to 4.                                                   *)
(***************************************************************************)
ListBuckets(p) ==
    /\ pc[p] = "t1" /\ Turn(p)
    /\ \E ok \in Outcomes(TRUE) :
          /\ Issue(p, Op("ListBuckets", "", <<>>, NoSource, ok))
          /\ SetErr(p, ~ok)
          /\ faults' = Charge(TRUE, ok)
    /\ Goto(p, "t2")
    /\ UNCHANGED <<keyVars, environ, dotenvErr, key, testKey, genKey, store,
                   summary>>

HeadBucket(p) ==
    /\ pc[p] = "t2" /\ Turn(p)
    /\ \E ok \in Outcomes(TRUE) :
          /\ Issue(p, Op("HeadBucket", bucketName, <<>>, NoSource, ok))
          /\ SetErr(p, ~ok)
          /\ faults' = Charge(TRUE, ok)
    /\ Goto(p, "t3")
    /\ UNCHANGED <<keyVars, environ, dotenvErr, key, testKey, genKey, store,
                   summary>>

\* Test 3: key, err := GenerateImageKeyWithEnv(filename, environment);
\* main returns when it fails
GenerateFileKey(p) ==
    /\ pc[p] = "t3" /\ Turn(p)
    /\ \E now \in Times, rnd \in RandOutcomes :
          LET r == GenerateImageKeyWithEnv(TestUploadFilename, environment,
                                           now, rnd)
          IN  /\ rnd.err => faults < MaxFaults
              /\ faults' = IF rnd.err THEN faults + 1 ELSE faults
              /\ genKey' = [genKey EXCEPT ![p] = r]
              /\ key' = [key EXCEPT ![p] = r.key]
              /\ SetErr(p, r.err)
              /\ Goto(p, IF r.err THEN "done" ELSE "t4")
    /\ UNCHANGED <<keyVars, environ, dotenvErr, testKey, log, store, summary>>

\* SDK v1, Test 4: key = "test-folder/test-file.txt"; bucket := "sharex";
\* PutObject; a failure is fatal
UploadV1(p) ==
    /\ p = "v1" /\ pc[p] = "t4" /\ Turn(p)
    /\ key' = [key EXCEPT ![p] = TestKeyV1]
    /\ \E ok \in Outcomes(TRUE) :
          /\ Issue(p, Op("PutObject", HardcodedBucket, key'[p], NoSource, ok))
          /\ SetErr(p, ~ok)
          /\ faults' = Charge(TRUE, ok)
          /\ store' = IF ok
                      THEN Without(HardcodedBucket, TestKeyV1)
                             \cup {[bucket |-> HardcodedBucket,
                                    key |-> TestKeyV1, body |-> FileContent(p)]}
                      ELSE store
          /\ Goto(p, AfterUploadV1(ok))
    /\ UNCHANGED <<keyVars, environ, dotenvErr, testKey, genKey, summary>>

\* SDK v2, Test 4, method 1: testKey := "test-folder/test-file-v2.txt";
\* PutObject; on failure the minimal PutObject is tried
UploadV2(p) ==
    /\ p = "v2" /\ pc[p] = "t4" /\ Turn(p)
    /\ testKey' = TestKeyV2
    /\ \E ok \in Outcomes(TRUE) :
          /\ Issue(p, Op("PutObject", bucketName, testKey', NoSource, ok))
          /\ SetErr(p, ~ok)
          /\ faults' = Charge(TRUE, ok)
          /\ store' = IF ok
                      THEN Without(bucketName, TestKeyV2)
                             \cup {[bucket |-> bucketName,
                                    key |-> TestKeyV2, body |-> FileContent(p)]}
                      ELSE store
          /\ Goto(p, IF ok THEN "t5" ELSE "t4min")
    /\ UNCHANGED <<keyVars, environ, dotenvErr, key, genKey, summary>>

\* SDK v2, Test 4, method 2: PutObject with key testKey + "-minimal";
\* testKey takes that key when it succeeds; Tests 5 to 12 are skipped when
\* it fails
UploadV2Minimal(p) ==
    /\ p = "v2" /\ pc[p] = "t4min" /\ Turn(p)
    /\ \E ok \in Outcomes(TRUE) :
          LET k == testKey \o MinimalSuffix
          IN  /\ Issue(p, Op("PutObject", bucketName, k, NoSource, ok))
              /\ SetErr(p, ~ok)
              /\ faults' = Charge(TRUE, ok)
              /\ store' = IF ok
                          THEN Without(bucketName, k)
                                 \cup {[bucket |-> bucketName, key |-> k,
                                        body |-> FileContent(p)]}
                          ELSE store
              /\ testKey' = KeyAfterMinimal(ok, k)
              /\ Goto(p, IF ok THEN "t5" ELSE "summary")
    /\ UNCHANGED <<keyVars, environ, dotenvErr, key, genKey, summary>>

(***************************************************************************)
(* main(): Tests 5 to 12 and the closing lines.                            *)
(***************************************************************************)
\* SDK v1, Test 5: WaitUntilObjectExists polls HeadObject on
\* (bucketName, key) and succeeds once the object is there
VerifyV1(p) ==
    /\ p = "v1" /\ pc[p] = "t5" /\ Turn(p)
    /\ \E ok \in Outcomes(Exists(bucketName, key[p])) :
          /\ Issue(p, Op("WaitUntilObjectExists", bucketName, key[p],
                         NoSource, ok))
          /\ SetErr(p, ~ok)
          /\ faults' = Charge(Exists(bucketName, key[p]), ok)
    /\ Goto(p, "t6")
    /\ UNCHANGED <<keyVars, environ, dotenvErr, key, testKey, genKey, store,
                   summary>>

\* SDK v2, Test 5: HeadObject on (bucketName, testKey), entered when the
\* upload left err nil; the last assignment to the function-scope err
VerifyV2(p) ==
    /\ p = "v2" /\ pc[p] = "t5" /\ Turn(p)
    /\ \E ok \in Outcomes(Exists(bucketName, testKey)) :
          /\ Issue(p, Op("HeadObject", bucketName, testKey, NoSource, ok))
          /\ SetErr(p, ~ok)
          /\ faults' = Charge(Exists(bucketName, testKey), ok)
    /\ Goto(p, "t6")
    /\ UNCHANGED <<keyVars, environ, dotenvErr, key, testKey, genKey, store,
                   summary>>

\* Test 6: HeadObject
GetFileMetadata(p) ==
    /\ pc[p] = "t6" /\ Turn(p)
    /\ \E ok \in Outcomes(Exists(bucketName, ObjectKey(p))) :
          /\ Issue(p, Op("HeadObject", bucketName, ObjectKey(p), NoSource, ok))
          /\ SetErrAfterVerify(p, ~ok)
          /\ faults' = Charge(Exists(bucketName, ObjectKey(p)), ok)
    /\ Goto(p, "t7")
    /\ UNCHANGED <<keyVars, environ, dotenvErr, key, testKey, genKey, store,
                   summary>>

\* Test 7: the public URL is composed and printed; no storage operation
PublicURL(p) ==
    /\ pc[p] = "t7" /\ Turn(p)
    /\ Goto(p, "t8")
    /\ UNCHANGED <<keyVars, environ, dotenvErr, err, key, testKey, genKey, log,
                   store, faults, summary>>

\* Test 8: presigned GetObject URL
PresignURL(p) ==
    /\ pc[p] = "t8" /\ Turn(p)
    /\ \E ok \in Outcomes(TRUE) :
          /\ Issue(p, Op("PresignGetObject", bucketName, ObjectKey(p),
                         NoSource, ok))
          /\ SetErrAfterVerify(p, ~ok)
          /\ faults' = Charge(TRUE, ok)
    /\ Goto(p, "t9")
    /\ UNCHANGED <<keyVars, environ, dotenvErr, key, testKey, genKey, store,
                   summary>>

\* Test 9: ListObjectsV2 with the prefix of the key
ListFiles(p) ==
    /\ pc[p] = "t9" /\ Turn(p)
    /\ \E ok \in Outcomes(TRUE) :
          /\ Issue(p, Op("ListObjectsV2", bucketName, ListPrefix(p),
                         NoSource, ok))
          /\ SetErrAfterVerify(p, ~ok)
          /\ faults' = Charge(TRUE, ok)
    /\ Goto(p, "t10")
    /\ UNCHANGED <<keyVars, environ, dotenvErr, key, testKey, genKey, store,
                   summary>>

\* Test 10: CopyObject to deletedKey; the original is deleted only when
\* the copy returned no error
CopyToDeleted(p) ==
    /\ pc[p] = "t10" /\ Turn(p)
    /\ \E ok \in Outcomes(Exists(bucketName, ObjectKey(p))) :
          /\ Issue(p, Op("CopyObject", bucketName, DeletedKey(p),
                         [bucket |-> bucketName, key |-> ObjectKey(p)], ok))
          /\ SetErrAfterVerify(p, ~ok)
          /\ faults' = Charge(Exists(bucketName, ObjectKey(p)), ok)
          /\ store' = IF ok
                      THEN Without(bucketName, DeletedKey(p))
                             \cup {[bucket |-> bucketName,
                                    key |-> DeletedKey(p),
                                    body |-> BodyOf(bucketName, ObjectKey(p))]}
                      ELSE store
          /\ Goto(p, AfterCopy(ok))
    /\ UNCHANGED <<keyVars, environ, dotenvErr, key, testKey, genKey, summary>>

\* Test 10: DeleteObject of the original
DeleteOriginal(p) ==
    /\ pc[p] = "t10del" /\ Turn(p)
    /\ \E ok \in Outcomes(TRUE) :
          /\ Issue(p, Op("DeleteObject", bucketName, ObjectKey(p), NoSource, ok))
          /\ SetErrAfterVerify(p, ~ok)
          /\ faults' = Charge(TRUE, ok)
          /\ store' = IF ok THEN Without(bucketName, ObjectKey(p)) ELSE store
    /\ Goto(p, "t11")
    /\ UNCHANGED <<keyVars, environ, dotenvErr, key, testKey, genKey, summary>>

\* Test 11: HeadObject of the original (an error is the expected result)
HeadOriginal(p) ==
    /\ pc[p] = "t11" /\ Turn(p)
    /\ \E ok \in Outcomes(Exists(bucketName, ObjectKey(p))) :
          /\ Issue(p, Op("HeadObject", bucketName, ObjectKey(p), NoSource, ok))
          /\ SetErrAfterVerify(p, ~ok)
          /\ faults' = Charge(Exists(bucketName, ObjectKey(p)), ok)
    /\ Goto(p, "t11del")
    /\ UNCHANGED <<keyVars, environ, dotenvErr, key, testKey, genKey, store,
                   summary>>

\* Test 11: HeadObject of the deleted copy
HeadDeleted(p) ==
    /\ pc[p] = "t11del" /\ Turn(p)
    /\ \E ok \in Outcomes(Exists(bucketName, DeletedKey(p))) :
          /\ Issue(p, Op("HeadObject", bucketName, DeletedKey(p), NoSource, ok))
          /\ SetErrAfterVerify(p, ~ok)
          /\ faults' = Charge(Exists(bucketName, DeletedKey(p)), ok)
    /\ Goto(p, "t12")
    /\ UNCHANGED <<keyVars, environ, dotenvErr, key, testKey, genKey, store,
                   summary>>

\* Test 12: DeleteObject of the deleted copy
Cleanup(p) ==
    /\ pc[p] = "t12" /\ Turn(p)
    /\ \E ok \in Outcomes(TRUE) :
          /\ Issue(p, Op("DeleteObject", bucketName, DeletedKey(p), NoSource, ok))
          /\ SetErrAfterVerify(p, ~ok)
          /\ faults' = Charge(TRUE, ok)
          /\ store' = IF ok THEN Without(bucketName, DeletedKey(p)) ELSE store
    /\ Goto(p, "summary")
    /\ UNCHANGED <<keyVars, environ, dotenvErr, key, testKey, genKey, summary>>

\* the closing lines: unconditional in SDK v1, chosen by the function-scope
\* err in SDK v2
ClosingLine(p) ==
    IF p = "v1"
    THEN "All S3 operations have been tested using AWS SDK v1 (no chunked encoding)."
    ELSE IF err[p]
         THEN "Some tests failed due to upload issues with AWS SDK v2 and Tebi.io."
         ELSE "All S3 operations completed successfully using AWS SDK v2!"

PrintSummary(p) ==
    /\ pc[p] = "summary" /\ Turn(p)
    /\ summary' = [summary EXCEPT ![p] = ClosingLine(p)]
    /\ Goto(p, "done")
    /\ UNCHANGED <<keyVars, environ, dotenvErr, err, key, testKey, genKey, log,
                   store, faults>>

(***************************************************************************)
(* Specifications.                                                         *)
(***************************************************************************)
\* the programs in `run` are started on some environment and backend,
\* `spent` of the failure budget being used up already
ProgInit(run, spent) ==
    /\ argFilename = <<>>
    /\ argEnvironment = ""
    /\ callNow \in {[year |-> 2026, month |-> 11]}
    /\ callRnd = RandFail
    /\ callPc = "unused"
    /\ retKey = NoResult
    /\ retKeyEnv = NoResult
    /\ calls = NoCalls
    /\ pc = [p \in Progs |-> IF p \in run THEN "start" ELSE "off"]
    /\ environ \in Environs
    /\ dotenvErr = [p \in Progs |-> FALSE]
    /\ err = [p \in Progs |-> FALSE]
    /\ key = [p \in Progs |-> <<>>]
    /\ testKey = <<>>
    /\ genKey = [p \in Progs |-> NoResult]
    /\ log = [p \in Progs |-> <<>>]
    /\ store \in SUBSET Leftovers
    /\ faults = spent
    /\ summary = [p \in Progs |-> ""]

\* one run of one of the two programs
Init == \E p \in Progs : ProgInit({p}, 0)

\* a run of the SDK v1 program followed by a run of the SDK v2 program on
\* the same environment and backend, with one injected failure at most
\* over the two runs
InitBoth == ProgInit(Progs, MaxFaults - 1)

Next ==
    \E p \in Progs :
        \/ LoadConfig(p)
        \/ Validate(p)
        \/ PrintConfig(p)
        \/ InitClient(p)
        \/ ListBuckets(p)
        \/ HeadBucket(p)
        \/ GenerateFileKey(p)
        \/ UploadV1(p)
        \/ UploadV2(p)
        \/ UploadV2Minimal(p)
        \/ VerifyV1(p)
        \/ VerifyV2(p)
        \/ GetFileMetadata(p)
        \/ PublicURL(p)
        \/ PresignURL(p)
        \/ ListFiles(p)
        \/ CopyToDeleted(p)
        \/ DeleteOriginal(p)
        \/ HeadOriginal(p)
        \/ HeadDeleted(p)
        \/ Cleanup(p)
        \/ PrintSummary(p)

Spec == Init /\ [][Next]_vars

SpecBoth == InitBoth /\ [][Next]_vars

(***************************************************************************)
(* Concurrent calls of GenerateImageKeyWithEnv, statement by statement.    *)
(* Each call has its own filename, environment, parts/ext, now, yearMonth, *)
(* nanoID, key and err; time.Now and gonanoid.New are the only things the  *)
(* calls have in common.                                                   *)
(***************************************************************************)
\* the variable ext that line 40 reads: a local of the call
ExtOfFirstCall(c) == calls[1].ext

ExtOf(c) == calls[c].ext

SetCall(c, new) == calls' = [calls EXCEPT ![c] = new]

\* parts := strings.Split(filename, "."); ext := ...
StepSplit(c) ==
    /\ calls[c].pc = "split"
    /\ SetCall(c, [calls[c] EXCEPT !.ext = Ext(calls[c].filename),
                                   !.pc = "now"])

\* now := time.Now(); yearMonth := now.Format("200601")
StepNow(c) ==
    /\ calls[c].pc = "now"
    /\ \E t \in Times :
          SetCall(c, [calls[c] EXCEPT !.now = t,
                                      !.yearMonth = FormatYearMonth(t),
                                      !.pc = "nanoid"])

\* nanoID, err := gonanoid.New(15); on an error GenerateImageKey and
\* GenerateImageKeyWithEnv return ("", err)
StepNanoID(c) ==
    /\ calls[c].pc = "nanoid"
    /\ \E r \in RandOutcomes :
          SetCall(c, [calls[c] EXCEPT !.rnd = r,
                                      !.nanoID = r.id,
                                      !.err = r.err,
                                      !.pc = IF r.err THEN "returned"
                                                      ELSE "format"])

\* return fmt.Sprintf("%s/%s.%s", yearMonth, nanoID, ext), nil
StepFormat(c) ==
    /\ calls[c].pc = "format"
    /\ SetCall(c, [calls[c] EXCEPT
                      !.key = calls[c].yearMonth \o <<"/">> \o calls[c].nanoID
                                \o <<".">> \o ExtOf(c),
                      !.pc = "prefix"])

\* if environment == "dev" || environment == "development"
StepPrefix(c) ==
    /\ calls[c].pc = "prefix"
    /\ SetCall(c, [calls[c] EXCEPT
                      !.key = IF calls[c].environment = "dev"
                                  \/ calls[c].environment = "development"
                              THEN <<"d", "e", "v", "/">> \o @
                              ELSE @,
                      !.pc = "returned"])

ConcInit ==
    /\ ProgsIdle
    /\ argFilename = <<>>
    /\ argEnvironment = ""
    /\ callNow \in {[year |-> 2026, month |-> 11]}
    /\ callRnd = RandFail
    /\ callPc = "unused"
    /\ retKey = NoResult
    /\ retKeyEnv = NoResult
    /\ calls \in [CallIds -> { NewCall(f, e) : f \in ConcFilenames,
                                               e \in ConcEnvironments }]

ConcNext ==
    \E c \in CallIds :
        /\ \/ StepSplit(c)
           \/ StepNow(c)
           \/ StepNanoID(c)
           \/ StepFormat(c)
           \/ StepPrefix(c)
        /\ UNCHANGED <<argFilename, argEnvironment, callNow, callRnd, callPc,
                       retKey, retKeyEnv>>
        /\ UNCHANGED progVars

\* any number of calls (up to MaxCalls), interleaved in any order
SpecConc == ConcInit /\ [][ConcNext]_vars

KeyNext == CallGenerate

SpecKey == KeyInit /\ [][KeyNext]_vars


(***************************************************************************)
(* Helpers of the properties (computed without Split).                     *)
(***************************************************************************)
HasChar(s, c) == \E i \in 1..Len(s) : s[i] = c

CountChar(s, c) == Cardinality({ i \in 1..Len(s) : s[i] = c })

\* position of the last c in s, 0 when there is none
LastIndexOf(s, c) ==
    IF HasChar(s, c)
    THEN CHOOSE i \in 1..Len(s) :
            /\ s[i] = c
            /\ \A j \in (i + 1)..Len(s) : s[j] # c
    ELSE 0

\* the substring of s after its last c (all of s when there is none)
AfterLast(s, c) == SubSeq(s, LastIndexOf(s, c) + 1, Len(s))

HasPrefix(s, p) == Len(s) >= Len(p) /\ SubSeq(s, 1, Len(p)) = p

HasUpper(s) == \E i \in 1..Len(s) : s[i] \in UpperChars

DevPrefix == <<"d", "e", "v", "/">>

\* the call has returned a key
Generated == callPc = "returned" /\ ~retKeyEnv.err

(***************************************************************************)
(* Key generation: properties.                                             *)
(***************************************************************************)
\* C1: for every filename containing a ".", what follows the last "." of
\* the key returned by GenerateImageKey and by GenerateImageKeyWithEnv is
\* the substring of the filename after its last ".", case unchanged
\* (the empty string for a filename ending in ".").
C1_ExtensionIsFilenameSuffix ==
    (Generated /\ HasChar(argFilename, "."))
        => /\ AfterLast(retKey.key, ".") = AfterLast(argFilename, ".")
           /\ AfterLast(retKeyEnv.key, ".") = AfterLast(argFilename, ".")

C1_Witness ==
    /\ Generated
    /\ argFilename = <<"a", ".", "B">>
    /\ AfterLast(retKeyEnv.key, ".") = <<"B">>

\* C2: for every filename without a ".", the empty filename included, the
\* key returned by GenerateImageKey ends with the extension "jpg".
C2_DefaultExtensionJpg ==
    (Generated /\ ~HasChar(argFilename, "."))
        => /\ AfterLast(retKey.key, ".") = <<"j", "p", "g">>
           /\ retKey.key[Len(retKey.key) - 3] = "."

C2_Witness ==
    /\ Generated
    /\ argFilename = <<>>
    /\ AfterLast(retKey.key, ".") = <<"j", "p", "g">>

\* C3: the key returned by GenerateImageKeyWithEnv starts with "dev/" if
\* and only if the environment is exactly "dev" or "development"; for
\* every other environment it is the key of GenerateImageKey, unprefixed.
C3_DevPrefixIffDevEnvironment ==
    Generated
        => /\ HasPrefix(retKeyEnv.key, DevPrefix)
                <=> argEnvironment \in {"dev", "development"}
           /\ argEnvironment \notin {"dev", "development"}
                => retKeyEnv.key = retKey.key

C3_Witness ==
    /\ Generated
    /\ argEnvironment = "development"
    /\ HasPrefix(retKeyEnv.key, DevPrefix)

\* C4: for every filename and environment a successful result of
\* GenerateImageKeyWithEnv is non-empty and has exactly two "/"-delimited
\* segments without the "dev" prefix and exactly three with it.
C4_SegmentCount ==
    Generated
        => /\ retKeyEnv.key # <<>>
           /\ CountChar(retKeyEnv.key, "/") + 1
                = (IF argEnvironment \in {"dev", "development"} THEN 3 ELSE 2)

\* C5 (as claimed): for every filename with a ".", the extension of the
\* key contains no upper-case letter.
C5_ExtensionLowercase ==
    (Generated /\ HasChar(argFilename, "."))
        => ~HasUpper(AfterLast(retKeyEnv.key, "."))

\* C5 (amended): the extension of the key keeps the case of the filename:
\* for every filename with a ".", the extension of the key contains an
\* upper-case letter exactly when the filename's suffix after its last "."
\* contains one.
C5_ExtensionCaseFollowsFilename ==
    (Generated /\ HasChar(argFilename, "."))
        => (HasUpper(AfterLast(retKeyEnv.key, "."))
                <=> HasUpper(AfterLast(argFilename, ".")))

C5_Witness ==
    /\ Generated
    /\ argFilename = <<"a", ".", "B">>
    /\ HasUpper(AfterLast(retKeyEnv.key, "."))

\* C6: key generation fails if and only if the random source fails; a
\* failed call returns the error with the empty string (no partial key, no
\* "dev/" prefix), and a call whose random source succeeded returns a key.
C6_FailsIffRandomSourceFails ==
    callPc = "returned"
        => /\ retKey.err <=> callRnd.err
           /\ retKeyEnv.err <=> callRnd.err
           /\ retKey.err => retKey.key = <<>>
           /\ retKeyEnv.err => retKeyEnv.key = <<>>
           /\ ~retKeyEnv.err => (retKey.key # <<>> /\ retKeyEnv.key # <<>>)

C6_Witness ==
    /\ callPc = "returned"
    /\ callRnd.err
    /\ argEnvironment = "dev"
    /\ retKeyEnv = [key |-> <<>>, err |-> TRUE]


(***************************************************************************)
(* The programs: helpers of the properties.                                *)
(***************************************************************************)
\* positions of the operations named `name` in the log of p
OpsNamed(p, name) == { i \in 1..Len(log[p]) : log[p][i].op = name }

PutIndexes(p) == OpsNamed(p, "PutObject")

\* s up to and including its first c (empty when there is none)
ThroughFirst(s, c) ==
    IF HasChar(s, c)
    THEN SubSeq(s, 1, CHOOSE i \in 1..Len(s) :
                          s[i] = c /\ \A j \in 1..(i - 1) : s[j] # c)
    ELSE <<>>

\* the operation e addresses the object stored under key k: the object
\* itself, its ".deleted" copy, or the listing of its prefix
UsesKey(e, k) ==
    CASE e.op \in {"PutObject", "WaitUntilObjectExists", "PresignGetObject"}
            -> e.key = k
      [] e.op \in {"HeadObject", "DeleteObject"}
            -> e.key \in {k, k \o DeletedSuffix}
      [] e.op = "CopyObject"
            -> e.src.key = k /\ e.key = k \o DeletedSuffix
      [] e.op = "ListObjectsV2"
            -> e.key = ThroughFirst(k, "/")
      [] OTHER -> TRUE

\* the operations that name an object or a prefix
KeyedOps == {"PutObject", "WaitUntilObjectExists", "HeadObject",
             "PresignGetObject", "ListObjectsV2", "CopyObject", "DeleteObject"}

\* an operation as compared between the programs: its kind (the verify of
\* Test 5 counts as a head in both), bucket, key or prefix, copy source
Call(e) ==
    [op     |-> IF e.op = "WaitUntilObjectExists" THEN "HeadObject" ELSE e.op,
     bucket |-> e.bucket, key |-> e.key, src |-> e.src]

Calls(p) == [i \in 1..Len(log[p]) |-> Call(log[p][i])]

\* the two runs met the same results, operation by operation
SamePattern ==
    \A i \in 1..Len(log["v1"]) :
        i <= Len(log["v2"]) => log["v1"][i].ok = log["v2"][i].ok

(***************************************************************************)
(* The programs: properties.                                               *)
(***************************************************************************)
\* C7: in each program the key returned by GenerateImageKeyWithEnv is the
\* object key of the PutObject call and of every later head, presign,
\* list-by-prefix, copy and delete call of the run.
C7_GeneratedKeyIsUsed ==
    \A p \in Progs : \A i \in 1..Len(log[p]) :
        log[p][i].op \in KeyedOps => UsesKey(log[p][i], genKey[p].key)

\* C8: run on the same configuration, both past key generation with the
\* same generated key, and meeting the same results operation by
\* operation, the SDK v1 program and the SDK v2 program have issued the
\* same sequence of storage operations with the same bucket, key and
\* prefix arguments when they stop.
C8_SameOperationSequence ==
    (/\ pc["v1"] \in Terminal /\ pc["v2"] \in Terminal
     /\ genKey["v1"].key # <<>> /\ genKey["v2"] = genKey["v1"]
     /\ SamePattern)
        => Calls("v1") = Calls("v2")

\* C9: every operation of the SDK v1 program that names a bucket names
\* the bucket read from AWS_BUCKET_NAME.
C9_V1UsesConfiguredBucket ==
    \A i \in 1..Len(log["v1"]) :
        log["v1"][i].op \in KeyedOps => log["v1"][i].bucket = bucketName

\* C10: the SDK v2 program issues at most two PutObject calls; the second,
\* with key "test-folder/test-file-v2.txt-minimal", directly follows a
\* first one that failed; every operation after the upload addresses the
\* key under which a PutObject succeeded (the object, its ".deleted" copy,
\* its prefix).  The SDK v1 program issues at most one PutObject, and
\* exactly one in every run that gets past Test 4.
C10_SingleFallbackUpload ==
    /\ Cardinality(PutIndexes("v2")) <= 2
    /\ \A i \in PutIndexes("v2") :
          \/ log["v2"][i].key = TestKeyV2 /\ PutIndexes("v2") \cap 1..(i - 1) = {}
          \/ /\ log["v2"][i].key = TestKeyV2 \o MinimalSuffix
             /\ (i - 1) \in PutIndexes("v2")
             /\ ~log["v2"][i - 1].ok
             /\ log["v2"][i - 1].key = TestKeyV2
    /\ \A i \in 1..Len(log["v2"]) :
          (log["v2"][i].op \in KeyedOps \ {"PutObject"})
              => \E j \in PutIndexes("v2") :
                    /\ j < i
                    /\ log["v2"][j].ok
                    /\ UsesKey(log["v2"][i], log["v2"][j].key)
    /\ Cardinality(PutIndexes("v1")) <= 1
    /\ (pc["v1"] \in {"t5", "t6", "t7", "t8", "t9", "t10", "t10del", "t11",
                      "t11del", "t12", "summary"} \/ summary["v1"] # "")
          => Cardinality(PutIndexes("v1")) = 1

C10_Witness ==
    /\ pc["v2"] = "done"
    /\ Cardinality(PutIndexes("v2")) = 2
    /\ \E i \in OpsNamed("v2", "CopyObject") :
          /\ log["v2"][i].ok
          /\ log["v2"][i].src.key = TestKeyV2 \o MinimalSuffix


(***************************************************************************)
(* The programs: soft delete and cleanup.                                  *)
(***************************************************************************)
\* the key of the PutObject of p that succeeded (one at most does)
Uploaded(p) == \E i \in PutIndexes(p) : log[p][i].ok

UploadedKey(p) ==
    log[p][CHOOSE i \in PutIndexes(p) : log[p][i].ok].key

\* some bucket holds the content p uploaded under key k
ContentUnder(p, k) ==
    \E o \in store : o.key = k /\ o.body = FileContent(p)

\* the DeleteObject calls of the original key, and the Test 12 ones
DeletesOfOriginal(p) ==
    { i \in OpsNamed(p, "DeleteObject") : log[p][i].key = UploadedKey(p) }

\* Test 12 has not run yet
BeforeCleanup(p) == pc[p] \notin {"summary", "done"}

\* C11: in both programs every DeleteObject of the original key directly
\* follows a CopyObject from that key to the key with the ".deleted"
\* suffix that returned success, and a failed CopyObject is never followed
\* by a DeleteObject of the original; from a successful upload until the
\* cleanup step the uploaded content is stored under the original key or
\* under the ".deleted" key.
C11_DeleteOnlyAfterCopy ==
    \A p \in Progs :
        Uploaded(p) =>
            /\ \A i \in DeletesOfOriginal(p) :
                  /\ i > 1
                  /\ log[p][i - 1].op = "CopyObject"
                  /\ log[p][i - 1].ok
                  /\ log[p][i - 1].src.key = UploadedKey(p)
                  /\ log[p][i - 1].key = UploadedKey(p) \o DeletedSuffix
            /\ \A i \in OpsNamed(p, "CopyObject") :
                  ~log[p][i].ok => DeletesOfOriginal(p) = {}
            /\ BeforeCleanup(p)
                  => \/ ContentUnder(p, UploadedKey(p))
                     \/ ContentUnder(p, UploadedKey(p) \o DeletedSuffix)

\* the copy failed and Test 11 found the original still there
C11_Witness ==
    /\ pc["v2"] = "t12"
    /\ Uploaded("v2")
    /\ \E i \in OpsNamed("v2", "CopyObject") : ~log["v2"][i].ok
    /\ ContentUnder("v2", UploadedKey("v2"))
    /\ ~ContentUnder("v2", UploadedKey("v2") \o DeletedSuffix)


\* the HeadObject of the original key in Test 11, for which an error is
\* the expected result
IsHeadOfOriginalAfterDelete(p, i) ==
    /\ log[p][i].op = "HeadObject"
    /\ log[p][i].key = UploadedKey(p)
    /\ \E j \in OpsNamed(p, "CopyObject") : j < i

\* the upload succeeded and every operation after it returned no error
\* (whatever the Test 11 HeadObject of the original returned)
AllReportedSuccess(p) ==
    /\ Uploaded(p)
    /\ \A i \in 1..Len(log[p]) :
          (i > (CHOOSE j \in PutIndexes(p) : log[p][j].ok)
             /\ ~IsHeadOfOriginalAfterDelete(p, i))
              => log[p][i].ok

\* C12: at the end of a run of either program in which the upload and
\* every later operation reported success, no bucket holds the uploaded
\* content under the uploaded key or under its ".deleted" key.
C12_CleanupRemovesTestFiles ==
    \A p \in Progs :
        (pc[p] = "done" /\ summary[p] # "" /\ AllReportedSuccess(p))
            => /\ ~ContentUnder(p, UploadedKey(p))
               /\ ~ContentUnder(p, UploadedKey(p) \o DeletedSuffix)


(***************************************************************************)
(* Concurrent key generation: properties.                                  *)
(***************************************************************************)
\* C13: however the calls of GenerateImageKeyWithEnv interleave, the
\* result of each is the one the call would have returned alone on its
\* filename and environment, the clock value it read and the random
\* outcome it drew.
C13_CallsAreIndependent ==
    \A c \in CallIds :
        calls[c].pc = "returned"
            => [key |-> calls[c].key, err |-> calls[c].err]
                 = GenerateImageKeyWithEnv(calls[c].filename,
                                           calls[c].environment,
                                           calls[c].now, calls[c].rnd)

\* two interleaved calls on different filenames and environments, which
\* read different clock values and drew different ids, have both returned
C13_Witness ==
    /\ \A c \in CallIds : calls[c].pc = "returned" /\ ~calls[c].err
    /\ calls[1].filename # calls[2].filename
    /\ calls[1].environment # calls[2].environment
    /\ calls[1].now # calls[2].now
    /\ calls[1].rnd # calls[2].rnd


(***************************************************************************)
(* The programs: start-up, closing line, order of the operations.          *)
(***************************************************************************)
\* one of the four variables the programs call required is empty
AnyRequiredEmpty ==
    \/ environ.AWS_ACCESS_KEY_ID = <<>>
    \/ environ.AWS_SECRET_ACCESS_KEY = <<>>
    \/ environ.AWS_DEFAULT_REGION = ""
    \/ environ.AWS_BUCKET_NAME = ""

\* C14: in both programs the validation of the configuration ends the run
\* with a fatal error exactly when one of AWS_ACCESS_KEY_ID,
\* AWS_SECRET_ACCESS_KEY, AWS_DEFAULT_REGION, AWS_BUCKET_NAME is empty,
\* whatever AWS_ENDPOINT_URL and ENV hold and whether or not the .env file
\* was loaded; no client was created and no operation issued before it.
C14_FatalIffRequiredEmpty ==
    [][\A p \in Progs :
          (pc[p] = "validate" /\ pc'[p] # "validate")
              => /\ (pc'[p] = "fatal") <=> AnyRequiredEmpty
                 /\ AnyRequiredEmpty => pc'[p] \in Terminal
                 /\ log'[p] = <<>>]_vars

\* a run ended by the validation with only AWS_BUCKET_NAME empty
C14_Witness ==
    \E p \in Progs :
        /\ pc[p] = "fatal"
        /\ environ.AWS_BUCKET_NAME = ""
        /\ environ.AWS_ACCESS_KEY_ID # <<>>
        /\ environ.AWS_SECRET_ACCESS_KEY # <<>>
        /\ environ.AWS_DEFAULT_REGION # ""
        /\ environ.AWS_ENDPOINT_URL # ""
        /\ ~dotenvErr[p]
        /\ log[p] = <<>>

\* C15: the SDK v2 program prints "All S3 operations completed
\* successfully using AWS SDK v2!" only if the upload succeeded and every
\* operation of Tests 5 to 12 returned no error (the Test 11 HeadObject of
\* the original, for which an error is expected, aside).
C15_SuccessLineOnlyIfAllSucceeded ==
    summary["v2"] = "All S3 operations completed successfully using AWS SDK v2!"
        => AllReportedSuccess("v2")

\* C16: with the four required variables non-empty, printing the
\* configuration never aborts the program.
C16_PrintConfigNeverFails ==
    \A p \in Progs : ~AnyRequiredEmpty => pc[p] # "panic"

\* the operations of Tests 5 to 12
LaterOps == KeyedOps \ {"PutObject"}

\* C17: in both programs every verify, head-object, presign, list, copy
\* and delete operation comes after a PutObject of the same run that
\* succeeded: SDK v1 ends fatally on a failed upload, SDK v2 goes straight
\* to the closing lines when both uploads failed, and both end before any
\* PutObject when the key generation failed.
C17_NothingWithoutUpload ==
    \A p \in Progs :
        /\ \A i \in 1..Len(log[p]) :
              log[p][i].op \in LaterOps
                  => \E j \in PutIndexes(p) : j < i /\ log[p][j].ok
        /\ (p = "v1" /\ \E i \in PutIndexes(p) : ~log[p][i].ok)
              => pc[p] = "fatal"
        /\ (p = "v2" /\ PutIndexes(p) # {} /\ ~Uploaded(p))
              => \/ pc[p] = "t4min" /\ Cardinality(PutIndexes(p)) = 1
                 \/ pc[p] \in {"summary", "done"}
                      /\ Cardinality(PutIndexes(p)) = 2
        /\ genKey[p].err => pc[p] = "done" /\ PutIndexes(p) = {}
                              /\ summary[p] = ""

\* SDK v2 ended after both of its uploads failed
C17_Witness ==
    /\ pc["v2"] = "done"
    /\ Cardinality(PutIndexes("v2")) = 2
    /\ ~Uploaded("v2")
    /\ log["v2"][Len(log["v2"])].op = "PutObject"

=============================================================================
